---- MODULE Spec2Model ----
(***************************************************************************)
(* Expanders and flatteners of the virtual machine resource                *)
(* (azurerm/internal/services/compute/virtual_machine.go).                 *)
(*                                                                         *)
(* A Go pointer is a sequence of length 0 (nil) or 1 (the pointee), so     *)
(* that "unset" and "zero" stay different values.  A list of the           *)
(* configuration ([]interface{}) is a sequence, a configuration block      *)
(* (map[string]interface{}) a record.  A function that returns             *)
(* (value, error) returns a record with both.                              *)
(*                                                                         *)
(* Each sub-resource has its own variables and its own specification:      *)
(* the functions share no state.  The object a flattener reads is either   *)
(* what the expander built or a response of the API.                       *)
(***************************************************************************)
EXTENDS Integers, Sequences, FiniteSets, TLC

VARIABLES
    identityPc,       \* "idle" | "expanded" | "received" | "flattened"
    identityConfig,   \* the `identity` block list handed to the expander
    identity,         \* *compute.VirtualMachineIdentity at hand
    identityErr,      \* the error the expander returned
    identityFlat,     \* what flattenVirtualMachineIdentity returned
    nicPc,            \* "idle" | "expanded" | "received" | "flattened"
    nicConfig,        \* the network_interface_ids list
    nics,             \* *[]compute.NetworkInterfaceReference at hand
    nicFlat,          \* what flattenVirtualMachineNetworkInterfaceIDs returned
    osPc,             \* "idle" | "expanded" | "received" | "flattened"
    osConfig,         \* the `os_disk` block list handed to the expander
    osDisk,           \* *compute.OSDisk at hand
    osGet,            \* what disksClient.Get returned, when flatten called it
    osFlat,           \* what flattenVirtualMachineOSDisk returned
    ddPc,             \* "idle" | "loop" | "done"
    ddConfig,         \* the `data_disk` list of the resource data
    ddIndex,          \* the entry the loop of expandVirtualMachineDataDisks is at
    ddResult,         \* its local `result`
    ddLookups,        \* the calls of disksClient.Get it has issued, in order
    ddReturn          \* what expandVirtualMachineDataDisks returned

identityVars == <<identityPc, identityConfig, identity, identityErr, identityFlat>>
nicVars == <<nicPc, nicConfig, nics, nicFlat>>
osVars == <<osPc, osConfig, osDisk, osGet, osFlat>>
ddVars == <<ddPc, ddConfig, ddIndex, ddResult, ddLookups, ddReturn>>
vars == <<identityVars, nicVars, osVars, ddVars>>

Nil == <<>>
Ptr(v) == <<v>>

\* The orders in which a Go `range` may enumerate the keys of a map.
MapIterationOrders(keys) ==
    {order \in [1..Cardinality(keys) -> keys] :
        \A i, j \in 1..Cardinality(keys) : i # j => order[i] # order[j]}

----------------------------------------------------------------------------
(* Identity *)

ResourceIdentityTypeNone == "None"
ResourceIdentityTypeSystemAssigned == "SystemAssigned"
ResourceIdentityTypeUserAssigned == "UserAssigned"
ResourceIdentityTypeSystemAssignedUserAssigned == "SystemAssigned, UserAssigned"

\* virtualMachineIdentitySchema: the values `type` may take.
IdentitySchemaTypes ==
    {ResourceIdentityTypeSystemAssigned,
     ResourceIdentityTypeUserAssigned,
     ResourceIdentityTypeSystemAssignedUserAssigned}

UserAssignedIdentityIDs == {"uai-a", "uai-b", "uai-c"}

\* The `identity` block lists the schema admits (MaxItems: 1).
IdentityConfigs ==
    {<<>>} \cup
    {<<[type |-> t, identity_ids |-> ids]>> :
        t \in IdentitySchemaTypes, ids \in SUBSET UserAssignedIdentityIDs}

ErrIdentityIds == "identity_ids can only be specified when type includes UserAssigned"

expandVirtualMachineIdentity_AnyUserAssigned(input) ==
    IF Len(input) = 0
    THEN [identity |-> Ptr([Type |-> ResourceIdentityTypeNone,
                            UserAssignedIdentities |-> Nil,
                            PrincipalID |-> Nil, TenantID |-> Nil]),
          err |-> Nil]
    ELSE LET raw == input[1]
             obj == [Type |-> raw.type, UserAssignedIdentities |-> Nil,
                     PrincipalID |-> Nil, TenantID |-> Nil]
             identityIds == raw.identity_ids
         IN  IF Cardinality(identityIds) > 0
             THEN IF obj.Type # ResourceIdentityTypeUserAssigned
                  THEN [identity |-> Nil, err |-> Ptr(ErrIdentityIds)]
                  ELSE [identity |-> Ptr([obj EXCEPT !.UserAssignedIdentities = Ptr(identityIds)]),
                        err |-> Nil]
             ELSE [identity |-> Ptr(obj), err |-> Nil]

\* A map[string]*...UserAssignedIdentitiesValue whose values are all the
\* empty struct is its set of keys.
expandVirtualMachineIdentity(input) ==
    IF Len(input) = 0
    THEN [identity |-> Ptr([Type |-> ResourceIdentityTypeNone,
                            UserAssignedIdentities |-> Nil,
                            PrincipalID |-> Nil, TenantID |-> Nil]),
          err |-> Nil]
    ELSE LET raw == input[1]
             obj == [Type |-> raw.type, UserAssignedIdentities |-> Nil,
                     PrincipalID |-> Nil, TenantID |-> Nil]
             identityIds == raw.identity_ids
         IN  IF Cardinality(identityIds) > 0
             THEN IF /\ obj.Type # ResourceIdentityTypeUserAssigned
                     /\ obj.Type # ResourceIdentityTypeSystemAssignedUserAssigned
                  THEN [identity |-> Nil, err |-> Ptr(ErrIdentityIds)]
                  ELSE [identity |-> Ptr([obj EXCEPT !.UserAssignedIdentities = Ptr(identityIds)]),
                        err |-> Nil]
             ELSE [identity |-> Ptr(obj), err |-> Nil]

flattenVirtualMachineIdentity_DropsLast(input, order) ==
    IF input = Nil \/ input[1].Type = ResourceIdentityTypeNone
    THEN <<>>
    ELSE <<[type |-> input[1].Type,
            identity_ids |-> IF input[1].UserAssignedIdentities # Nil /\ Len(order) > 0
                             THEN SubSeq(order, 1, Len(order) - 1) ELSE <<>>,
            principal_id |-> IF input[1].PrincipalID # Nil THEN input[1].PrincipalID[1] ELSE "",
            tenant_id |-> IF input[1].TenantID # Nil THEN input[1].TenantID[1] ELSE ""]>>

\* `order` is the order in which `range input.UserAssignedIdentities`
\* enumerates the keys.
flattenVirtualMachineIdentity(input, order) ==
    IF input = Nil \/ input[1].Type = ResourceIdentityTypeNone
    THEN <<>>
    ELSE <<[type |-> input[1].Type,
            identity_ids |-> IF input[1].UserAssignedIdentities # Nil THEN order ELSE <<>>,
            principal_id |-> IF input[1].PrincipalID # Nil THEN input[1].PrincipalID[1] ELSE "",
            tenant_id |-> IF input[1].TenantID # Nil THEN input[1].TenantID[1] ELSE ""]>>

\* The identity objects the API returns: the kind None carries no
\* user-assigned identities.
IdentityResponses ==
    {Nil} \cup
    {Ptr(obj) : obj \in
        {o \in [Type : IdentitySchemaTypes \cup {ResourceIdentityTypeNone},
                UserAssignedIdentities :
                    {Nil} \cup {Ptr(ids) : ids \in SUBSET UserAssignedIdentityIDs},
                PrincipalID : {Nil, Ptr("0000-1111")},
                TenantID : {Nil, Ptr("2222-3333")}] :
            o.Type = ResourceIdentityTypeNone => o.UserAssignedIdentities = Nil}}

IdentityKeys(obj) ==
    IF obj = Nil \/ obj[1].UserAssignedIdentities = Nil
    THEN {} ELSE obj[1].UserAssignedIdentities[1]

ExpandIdentity ==
    /\ identityPc = "idle"
    /\ \E input \in IdentityConfigs :
        LET r == expandVirtualMachineIdentity(input)
        IN  /\ identityPc' = "expanded"
            /\ identityConfig' = input
            /\ identity' = r.identity
            /\ identityErr' = r.err
            /\ identityFlat' = <<>>
            /\ UNCHANGED <<nicVars, osVars, ddVars>>

ReceiveIdentity ==
    /\ identityPc = "idle"
    /\ \E resp \in IdentityResponses :
        /\ identityPc' = "received"
        /\ identityConfig' = <<>>
        /\ identity' = resp
        /\ identityErr' = Nil
        /\ identityFlat' = <<>>
        /\ UNCHANGED <<nicVars, osVars, ddVars>>

FlattenIdentity ==
    /\ identityPc \in {"expanded", "received"}
    /\ identityErr = Nil
    /\ \E order \in MapIterationOrders(IdentityKeys(identity)) :
        identityFlat' = flattenVirtualMachineIdentity(identity, order)
    /\ identityPc' = "flattened"
    /\ UNCHANGED <<identityConfig, identity, identityErr>>
    /\ UNCHANGED <<nicVars, osVars, ddVars>>

----------------------------------------------------------------------------
(* Network interfaces *)

MaxNics == 3

NetworkInterfaceIDs == {"nic-a", "nic-b", "nic-c"}

NicConfigs == UNION {[1..n -> NetworkInterfaceIDs] : n \in 0..MaxNics}

RECURSIVE expandNicsFrom(_, _)
expandNicsFrom(input, i) ==
    IF i > Len(input) THEN <<>>
    ELSE <<[ID |-> Ptr(input[i]), Primary |-> Ptr(i = 1)]>> \o expandNicsFrom(input, i + 1)

expandVirtualMachineNetworkInterfaceIDs_LastPrimary(input) ==
    [i \in 1..Len(input) |-> [ID |-> Ptr(input[i]), Primary |-> Ptr(i = Len(input))]]

\* The loop index i of the source starts at 0; sequences start at 1.
expandVirtualMachineNetworkInterfaceIDs(input) == expandNicsFrom(input, 1)

RECURSIVE flattenNicsFrom(_, _)
flattenNicsFrom(refs, i) ==
    IF i > Len(refs) THEN <<>>
    ELSE (IF refs[i].ID = Nil THEN <<>> ELSE <<refs[i].ID[1]>>) \o flattenNicsFrom(refs, i + 1)

flattenVirtualMachineNetworkInterfaceIDs(input) ==
    IF input = Nil THEN <<>> ELSE flattenNicsFrom(input[1], 1)

NicReferences ==
    {[ID |-> id, Primary |-> p] :
        id \in {Nil} \cup {Ptr(n) : n \in NetworkInterfaceIDs}, p \in {Nil, Ptr(TRUE), Ptr(FALSE)}}

NicResponses ==
    {Nil} \cup {Ptr(l) : l \in UNION {[1..n -> NicReferences] : n \in 0..(MaxNics - 1)}}

ExpandNetworkInterfaceIDs ==
    /\ nicPc = "idle"
    /\ \E input \in NicConfigs :
        /\ nicPc' = "expanded"
        /\ nicConfig' = input
        /\ nics' = Ptr(expandVirtualMachineNetworkInterfaceIDs(input))
        /\ nicFlat' = <<>>
        /\ UNCHANGED <<identityVars, osVars, ddVars>>

ReceiveNetworkInterfaces ==
    /\ nicPc = "idle"
    /\ \E resp \in NicResponses :
        /\ nicPc' = "received"
        /\ nicConfig' = <<>>
        /\ nics' = resp
        /\ nicFlat' = <<>>
        /\ UNCHANGED <<identityVars, osVars, ddVars>>

FlattenNetworkInterfaceIDs ==
    /\ nicPc \in {"expanded", "received"}
    /\ nicFlat' = flattenVirtualMachineNetworkInterfaceIDs(nics)
    /\ nicPc' = "flattened"
    /\ UNCHANGED <<nicConfig, nics>>
    /\ UNCHANGED <<identityVars, osVars, ddVars>>

----------------------------------------------------------------------------
(* Disk lookup: parse.ManagedDiskID, disksClient.Get, utils.ResponseWasNotFound *)

DiskIdA == "/subscriptions/s/resourceGroups/rg-a/providers/Microsoft.Compute/disks/disk-a"
DiskIdB == "/subscriptions/s/resourceGroups/rg-b/providers/Microsoft.Compute/disks/disk-b"
BadDiskId == "/subscriptions/s/resourceGroups/rg-a"
DiskEncryptionSetId == "/subscriptions/s/resourceGroups/rg-a/providers/Microsoft.Compute/diskEncryptionSets/des-a"

\* parse.ManagedDiskID: the resource group and the name of a managed disk
\* identifier, or an error when the string is not one.
ParseManagedDiskID(s) ==
    CASE s = DiskIdA -> [err |-> Nil, ResourceGroup |-> "rg-a", Name |-> "disk-a"]
      [] s = DiskIdB -> [err |-> Nil, ResourceGroup |-> "rg-b", Name |-> "disk-b"]
      [] OTHER -> [err |-> Ptr("ManagedDiskID: cannot parse"), ResourceGroup |-> "", Name |-> ""]

HttpStatusOK == 200
HttpStatusNotFound == 404
HttpStatusInternalServerError == 500

\* utils.ResponseWasNotFound: the call got a response and its status is 404.
ResponseWasNotFound(resp) ==
    resp.StatusCode # Nil /\ resp.StatusCode[1] = HttpStatusNotFound

\* What disksClient.Get returns when it is not called.
NoGet == [err |-> Nil, StatusCode |-> Nil, Sku |-> Nil, DiskProperties |-> Nil]

\* A disk the lookup service holds.  The service returns the properties of
\* every disk it returns.
LookedUpDisks ==
    [err : {Nil}, StatusCode : {Ptr(HttpStatusOK)},
     Sku : {Nil, Ptr([Name |-> "Standard_LRS"])},
     DiskProperties :
        {Ptr(p) : p \in [DiskSizeGB : {Nil, Ptr(0), Ptr(64)},
                         Encryption : {Nil, Ptr([DiskEncryptionSetID |-> Nil]),
                                       Ptr([DiskEncryptionSetID |-> Ptr("des-of-disk")])}]}]

GetNotFound ==
    [err |-> Ptr("StatusCode=404"), StatusCode |-> Ptr(HttpStatusNotFound),
     Sku |-> Nil, DiskProperties |-> Nil]

\* A failure with a response (a server error) and one without (the context
\* was cancelled, the connection failed).
GetFailures ==
    {[err |-> Ptr("StatusCode=500"), StatusCode |-> Ptr(HttpStatusInternalServerError),
      Sku |-> Nil, DiskProperties |-> Nil],
     [err |-> Ptr("context deadline exceeded"), StatusCode |-> Nil,
      Sku |-> Nil, DiskProperties |-> Nil]}

\* disksClient.Get: every outcome of the blocking call.
GetOutcomes == LookedUpDisks \cup {GetNotFound} \cup GetFailures

----------------------------------------------------------------------------
(* OS disk *)

CachingTypes == {"None", "ReadOnly", "ReadWrite"}
OSDiskStorageAccountTypes == {"Premium_LRS", "Standard_LRS", "StandardSSD_LRS"}
OperatingSystemTypes == {"Linux", "Windows"}
DiskCreateOptionTypesFromImage == "FromImage"
DiskCreateOptionTypesEmpty == "Empty"
DiskCreateOptionTypesAttach == "Attach"
Local == "Local"

OSDiskSizeMin == 0
OSDiskSizeMax == 2048

\* virtualMachineOSDiskSchema: the `os_disk` block lists the schema admits
\* (Required, MaxItems: 1).
OSDiskConfigs ==
    {<<raw>> : raw \in
        [caching : CachingTypes,
         storage_account_type : OSDiskStorageAccountTypes,
         diff_disk_settings : {<<>>, <<[option |-> Local]>>},
         disk_encryption_set_id : {"", DiskEncryptionSetId},
         disk_size_gb : {OSDiskSizeMin, 30, OSDiskSizeMax},
         name : {"", "osdisk"},
         write_accelerator_enabled : BOOLEAN]}

expandOSDiskSizeGB_Always(raw) == Ptr(raw.disk_size_gb)

\* if osDiskSize := raw["disk_size_gb"].(int); osDiskSize > 0
expandOSDiskSizeGB(raw) ==
    IF raw.disk_size_gb > 0 THEN Ptr(raw.disk_size_gb) ELSE Nil

expandVirtualMachineOSDisk(input, osType) ==
    LET raw == input[1]
    IN  Ptr([Caching |-> raw.caching,
             ManagedDisk |->
                Ptr([StorageAccountType |-> raw.storage_account_type,
                     ID |-> Nil,
                     DiskEncryptionSet |->
                        IF raw.disk_encryption_set_id # ""
                        THEN Ptr([ID |-> Ptr(raw.disk_encryption_set_id)])
                        ELSE Nil]),
             WriteAcceleratorEnabled |-> Ptr(raw.write_accelerator_enabled),
             CreateOption |-> DiskCreateOptionTypesFromImage,
             OsType |-> osType,
             DiskSizeGB |-> expandOSDiskSizeGB(raw),
             DiffDiskSettings |->
                IF Len(raw.diff_disk_settings) > 0
                THEN Ptr([Option |-> raw.diff_disk_settings[1].option])
                ELSE Nil,
             Name |-> IF raw.name # "" THEN Ptr(raw.name) ELSE Nil])

osDiskGetFailed_NotFoundToo(get) == get.err # Nil

\* if err != nil { if !utils.ResponseWasNotFound(disk.Response) { return nil, err } }
osDiskGetFailed(get) == get.err # Nil /\ ~ResponseWasNotFound(get)

osDiskBackfillSizeGb_Overrides(diskSizeGb, disk) ==
    IF disk.DiskProperties # Nil /\ disk.DiskProperties[1].DiskSizeGB # Nil
    THEN disk.DiskProperties[1].DiskSizeGB[1]
    ELSE diskSizeGb

\* if diskSizeGb == 0 && disk.DiskProperties != nil && disk.DiskProperties.DiskSizeGB != nil
osDiskBackfillSizeGb(diskSizeGb, disk) ==
    IF diskSizeGb = 0 /\ disk.DiskProperties # Nil /\ disk.DiskProperties[1].DiskSizeGB # Nil
    THEN disk.DiskProperties[1].DiskSizeGB[1]
    ELSE diskSizeGb

\* if disk.Sku != nil && storageAccountType == ""
osDiskBackfillStorageAccountType(storageAccountType, disk) ==
    IF disk.Sku # Nil /\ storageAccountType = ""
    THEN disk.Sku[1].Name
    ELSE storageAccountType

\* if disk.Encryption != nil && disk.Encryption.DiskEncryptionSetID != nil
\* (Encryption is a field of the embedded DiskProperties)
osDiskBackfillEncryptionSetId(diskEncryptionSetId, disk) ==
    IF /\ disk.DiskProperties[1].Encryption # Nil
       /\ disk.DiskProperties[1].Encryption[1].DiskEncryptionSetID # Nil
    THEN disk.DiskProperties[1].Encryption[1].DiskEncryptionSetID[1]
    ELSE diskEncryptionSetId

\* The identifier flattenVirtualMachineOSDisk hands to parse.ManagedDiskID.
osDiskManagedDiskID(input) ==
    IF input # Nil /\ input[1].ManagedDisk # Nil
    THEN input[1].ManagedDisk[1].ID
    ELSE Nil

\* The call of disksClient.Get flattenVirtualMachineOSDisk issues, if any.
osDiskLookup(input) ==
    IF osDiskManagedDiskID(input) # Nil
        /\ ParseManagedDiskID(osDiskManagedDiskID(input)[1]).err = Nil
    THEN Ptr([ResourceGroup |-> ParseManagedDiskID(osDiskManagedDiskID(input)[1]).ResourceGroup,
              Name |-> ParseManagedDiskID(osDiskManagedDiskID(input)[1]).Name])
    ELSE Nil

\* `get` is what disksClient.Get returns for the call of osDiskLookup(input).
flattenVirtualMachineOSDisk(input, get) ==
    IF input = Nil
    THEN [value |-> <<>>, err |-> Nil]
    ELSE
    LET d == input[1]
        diffDiskSettings ==
            IF d.DiffDiskSettings # Nil
            THEN <<[option |-> d.DiffDiskSettings[1].Option]>>
            ELSE <<>>
        diskSizeGb ==
            IF d.DiskSizeGB # Nil /\ d.DiskSizeGB[1] # 0 THEN d.DiskSizeGB[1] ELSE 0
        name == IF d.Name # Nil THEN d.Name[1] ELSE ""
        storageAccountType ==
            IF d.ManagedDisk # Nil THEN d.ManagedDisk[1].StorageAccountType ELSE ""
        hasID == d.ManagedDisk # Nil /\ d.ManagedDisk[1].ID # Nil
        id == ParseManagedDiskID(d.ManagedDisk[1].ID[1])
        found == hasID /\ ~ResponseWasNotFound(get)
        writeAcceleratorEnabled ==
            IF d.WriteAcceleratorEnabled # Nil THEN d.WriteAcceleratorEnabled[1] ELSE FALSE
    IN  IF hasID /\ id.err # Nil
        THEN [value |-> <<>>, err |-> id.err]
        ELSE IF hasID /\ osDiskGetFailed(get)
        THEN [value |-> <<>>, err |-> get.err]
        ELSE [value |->
                <<[caching |-> d.Caching,
                   disk_size_gb |->
                        IF found THEN osDiskBackfillSizeGb(diskSizeGb, get) ELSE diskSizeGb,
                   diff_disk_settings |-> diffDiskSettings,
                   disk_encryption_set_id |->
                        IF found THEN osDiskBackfillEncryptionSetId("", get) ELSE "",
                   name |-> name,
                   storage_account_type |->
                        IF found
                        THEN osDiskBackfillStorageAccountType(storageAccountType, get)
                        ELSE storageAccountType,
                   write_accelerator_enabled |-> writeAcceleratorEnabled]>>,
              err |-> Nil]

\* The OS disk objects the API returns.
OSDiskResponses ==
    {Nil} \cup
    {Ptr(d) : d \in
        [Caching : {"ReadWrite"},
         ManagedDisk :
            {Nil} \cup
            {Ptr(m) : m \in
                [StorageAccountType : {"", "Premium_LRS"},
                 ID : {Nil, Ptr(BadDiskId), Ptr(DiskIdA)},
                 DiskEncryptionSet : {Nil, Ptr([ID |-> Ptr(DiskEncryptionSetId)])}]},
         WriteAcceleratorEnabled : {Nil, Ptr(TRUE)},
         CreateOption : {DiskCreateOptionTypesFromImage},
         OsType : {"Linux"},
         DiskSizeGB : {Nil, Ptr(0), Ptr(30)},
         DiffDiskSettings : {Nil, Ptr([Option |-> Local])},
         Name : {Nil, Ptr("osdisk")}]}

ExpandOSDisk ==
    /\ osPc = "idle"
    /\ \E input \in OSDiskConfigs, osType \in OperatingSystemTypes :
        /\ osPc' = "expanded"
        /\ osConfig' = input
        /\ osDisk' = expandVirtualMachineOSDisk(input, osType)
        /\ osGet' = Nil
        /\ osFlat' = Nil
        /\ UNCHANGED <<identityVars, nicVars, ddVars>>

ReceiveOSDisk ==
    /\ osPc = "idle"
    /\ \E resp \in OSDiskResponses :
        /\ osPc' = "received"
        /\ osConfig' = <<>>
        /\ osDisk' = resp
        /\ osGet' = Nil
        /\ osFlat' = Nil
        /\ UNCHANGED <<identityVars, nicVars, ddVars>>

FlattenOSDisk ==
    /\ osPc \in {"expanded", "received"}
    /\ \E get \in (IF osDiskLookup(osDisk) # Nil THEN GetOutcomes ELSE {NoGet}) :
        /\ osGet' = IF osDiskLookup(osDisk) # Nil THEN Ptr(get) ELSE Nil
        /\ osFlat' = Ptr(flattenVirtualMachineOSDisk(osDisk, get))
    /\ osPc' = "flattened"
    /\ UNCHANGED <<osConfig, osDisk>>
    /\ UNCHANGED <<identityVars, nicVars, ddVars>>

----------------------------------------------------------------------------
(* Data disks *)

MaxDataDisks == 2

\* virtualMachineDataDiskSchema: the entries of `data_disk`.  create_option
\* is computed: empty on the first pass, the stored value afterwards.
DataDiskEntries ==
    [caching : {"ReadWrite"},
     lun : {0},
     name : {"data1", "data2"},
     storage_account_type : {"Premium_LRS"},
     disk_encryption_set_id : {""},
     disk_size_gb : {10},
     managed_disk_id : {"", BadDiskId, DiskIdA, DiskIdB},
     write_accelerator_enabled : {FALSE},
     create_option : {"", DiskCreateOptionTypesEmpty, DiskCreateOptionTypesAttach}]

DataDiskConfigs == UNION {[1..n -> DataDiskEntries] : n \in 0..MaxDataDisks}

\* What disksClient.Get returns to expandVirtualMachineDataDisks.
DataDiskGetOutcomes ==
    {g \in GetOutcomes :
        g.err = Nil => /\ g.Sku # Nil
                       /\ g.DiskProperties[1].DiskSizeGB # Ptr(0)
                       /\ g.DiskProperties[1].Encryption = Nil}

ErrParseManagedDiskID == "failed to parse Managed Disk ID for Data Disk"
ErrRetrieveManagedDisk == "failed to retrieve Managed Disk information for Data Disk"

dataDiskLookup_Unparsed(disk) ==
    IF disk.managed_disk_id # ""
    THEN Ptr([ResourceGroup |-> ParseManagedDiskID(disk.managed_disk_id).ResourceGroup,
              Name |-> ParseManagedDiskID(disk.managed_disk_id).Name])
    ELSE Nil

\* The call of disksClient.Get an entry leads to, if any.
dataDiskLookup(disk) ==
    IF disk.managed_disk_id # "" /\ ParseManagedDiskID(disk.managed_disk_id).err = Nil
    THEN Ptr([ResourceGroup |-> ParseManagedDiskID(disk.managed_disk_id).ResourceGroup,
              Name |-> ParseManagedDiskID(disk.managed_disk_id).Name])
    ELSE Nil

\* existingDisk, err := disksClient.Get(...); if err != nil
dataDiskGetFailed(get) == get.err # Nil

dataDiskCreateOption_Inverted(disk) ==
    IF disk.create_option # ""
    THEN DiskCreateOptionTypesAttach
    ELSE DiskCreateOptionTypesEmpty

\* if createOption, ok := disk["create_option"].(string); ok && createOption == ""
dataDiskCreateOption(disk) ==
    IF disk.create_option = ""
    THEN DiskCreateOptionTypesAttach
    ELSE DiskCreateOptionTypesEmpty

\* One pass of the loop of expandVirtualMachineDataDisks over the entry
\* `disk`; `get` is what disksClient.Get returns for dataDiskLookup(disk).
expandDataDisk(disk, get) ==
    LET dataDisk ==
            [Lun |-> Ptr(disk.lun),
             Caching |-> disk.caching,
             CreateOption |-> DiskCreateOptionTypesEmpty,
             ManagedDisk |->
                Ptr([StorageAccountType |-> disk.storage_account_type,
                     ID |-> Nil,
                     DiskEncryptionSet |->
                        IF disk.disk_encryption_set_id # ""
                        THEN Ptr([ID |-> Ptr(disk.disk_encryption_set_id)])
                        ELSE Nil]),
             Name |-> Ptr(disk.name),
             DiskSizeGB |-> Ptr(disk.disk_size_gb),
             WriteAcceleratorEnabled |-> Ptr(disk.write_accelerator_enabled)]
        dataDiskId == ParseManagedDiskID(disk.managed_disk_id)
    IN  IF disk.managed_disk_id = ""
        THEN [dataDisk |-> Ptr(dataDisk), err |-> Nil]
        ELSE IF dataDiskId.err # Nil
        THEN [dataDisk |-> Nil,
              err |-> Ptr([msg |-> ErrParseManagedDiskID, name |-> disk.name,
                           resourceGroup |-> ""])]
        ELSE IF dataDiskGetFailed(get)
        THEN [dataDisk |-> Nil,
              err |-> Ptr([msg |-> ErrRetrieveManagedDisk, name |-> dataDiskId.Name,
                           resourceGroup |-> dataDiskId.ResourceGroup])]
        ELSE [dataDisk |->
                Ptr([dataDisk EXCEPT
                        !.ManagedDisk = Ptr([dataDisk.ManagedDisk[1] EXCEPT
                                                !.ID = Ptr(disk.managed_disk_id)]),
                        !.DiskSizeGB = get.DiskProperties[1].DiskSizeGB,
                        !.CreateOption = dataDiskCreateOption(disk)]),
              err |-> Nil]

expandDataDisksFailed_PartialResult(result, err) == [result |-> Ptr(result), err |-> err]

\* return nil, fmt.Errorf(...): no disk list beside the error.
expandDataDisksFailed(result, err) == [result |-> Nil, err |-> err]

\* dataDisksRaw, ok := d.GetOk("data_disk"): not ok for the empty list.
ExpandDataDisksBegin ==
    /\ ddPc = "idle"
    /\ \E cfg \in DataDiskConfigs :
        /\ ddConfig' = cfg
        /\ IF Len(cfg) = 0
           THEN /\ ddPc' = "done"
                /\ ddReturn' = Ptr([result |-> Ptr(<<>>), err |-> Nil])
           ELSE /\ ddPc' = "loop"
                /\ ddReturn' = Nil
    /\ ddIndex' = 1
    /\ ddResult' = <<>>
    /\ ddLookups' = <<>>
    /\ UNCHANGED <<identityVars, nicVars, osVars>>

ExpandDataDisksEntry ==
    /\ ddPc = "loop"
    /\ ddIndex <= Len(ddConfig)
    /\ LET disk == ddConfig[ddIndex]
           call == dataDiskLookup(disk)
       IN  \E get \in (IF call # Nil THEN DataDiskGetOutcomes ELSE {NoGet}) :
            LET r == expandDataDisk(disk, get)
            IN  /\ ddLookups' =
                    IF call # Nil
                    THEN Append(ddLookups, [entry |-> ddIndex,
                                            ResourceGroup |-> call[1].ResourceGroup,
                                            Name |-> call[1].Name,
                                            get |-> get])
                    ELSE ddLookups
                /\ IF r.err # Nil
                   THEN /\ ddPc' = "done"
                        /\ ddReturn' = Ptr(expandDataDisksFailed(ddResult, r.err))
                        /\ UNCHANGED <<ddIndex, ddResult>>
                   ELSE /\ ddResult' = Append(ddResult, r.dataDisk[1])
                        /\ ddIndex' = ddIndex + 1
                        /\ UNCHANGED <<ddPc, ddReturn>>
    /\ UNCHANGED ddConfig
    /\ UNCHANGED <<identityVars, nicVars, osVars>>

ExpandDataDisksReturn ==
    /\ ddPc = "loop"
    /\ ddIndex > Len(ddConfig)
    /\ ddPc' = "done"
    /\ ddReturn' = Ptr([result |-> Ptr(ddResult), err |-> Nil])
    /\ UNCHANGED <<ddConfig, ddIndex, ddResult, ddLookups>>
    /\ UNCHANGED <<identityVars, nicVars, osVars>>

----------------------------------------------------------------------------

Init ==
    /\ identityPc = "idle"
    /\ identityConfig = <<>>
    /\ identity = Nil
    /\ identityErr = Nil
    /\ identityFlat = <<>>
    /\ nicPc = "idle"
    /\ nicConfig = <<>>
    /\ nics = Nil
    /\ nicFlat = <<>>
    /\ osPc = "idle"
    /\ osConfig = <<>>
    /\ osDisk = Nil
    /\ osGet = Nil
    /\ osFlat = Nil
    /\ ddPc = "idle"
    /\ ddConfig = <<>>
    /\ ddIndex = 1
    /\ ddResult = <<>>
    /\ ddLookups = <<>>
    /\ ddReturn = Nil

NextOSDisk == ExpandOSDisk \/ ReceiveOSDisk \/ FlattenOSDisk
SpecOSDisk == Init /\ [][NextOSDisk]_vars

NextDataDisks == ExpandDataDisksBegin \/ ExpandDataDisksEntry \/ ExpandDataDisksReturn
SpecDataDisks == Init /\ [][NextDataDisks]_vars

NextIdentity == ExpandIdentity \/ ReceiveIdentity \/ FlattenIdentity
SpecIdentity == Init /\ [][NextIdentity]_vars

NextNetwork == ExpandNetworkInterfaceIDs \/ ReceiveNetworkInterfaces \/ FlattenNetworkInterfaceIDs
SpecNetwork == Init /\ [][NextNetwork]_vars

----------------------------------------------------------------------------
(* Properties *)

\* C1: in flattenVirtualMachineOSDisk, when the OS disk carries a managed
\* disk identifier that parses (so the lookup is issued), a lookup that
\* fails with "not found" still gives success with one mapping, and a lookup
\* that fails with any other error gives that error and no mapping.
C1_LookupOutcomeDecides ==
    (osPc = "flattened" /\ osGet # Nil) =>
        /\ osGet[1] = GetNotFound =>
                osFlat[1].err = Nil /\ Len(osFlat[1].value) = 1
        /\ osGet[1] \in GetFailures =>
                osFlat[1].err = osGet[1].err /\ Len(osFlat[1].value) = 0

C1_Witness ==
    /\ osPc = "flattened"
    /\ osDisk # Nil
    /\ osDisk[1].ManagedDisk # Nil
    /\ osDisk[1].ManagedDisk[1].ID = Ptr(DiskIdA)
    /\ osGet = Ptr(GetNotFound)
    /\ osFlat[1].err = Nil
    /\ Len(osFlat[1].value) = 1

\* C2 as stated: every data disk entry with a non-empty managed_disk_id
\* whose lookup succeeded is expanded with create-option Attach, and an
\* entry with no managed_disk_id with create-option Empty.
C2_Original ==
    \A i \in DOMAIN ddResult :
        /\ ddConfig[i].managed_disk_id # "" =>
                ddResult[i].CreateOption = DiskCreateOptionTypesAttach
        /\ ddConfig[i].managed_disk_id = "" =>
                ddResult[i].CreateOption = DiskCreateOptionTypesEmpty

\* C2 (amended): every data disk entry with a non-empty managed_disk_id
\* whose lookup succeeded and whose computed create_option is still empty
\* (the first pass) is expanded with create-option Attach, and an entry
\* with no managed_disk_id with create-option Empty.
C2_AttachOnFirstPass ==
    \A i \in DOMAIN ddResult :
        /\ (ddConfig[i].managed_disk_id # "" /\ ddConfig[i].create_option = "") =>
                ddResult[i].CreateOption = DiskCreateOptionTypesAttach
        /\ ddConfig[i].managed_disk_id = "" =>
                ddResult[i].CreateOption = DiskCreateOptionTypesEmpty

C2_Witness ==
    /\ ddPc = "done"
    /\ ddReturn[1].err = Nil
    /\ Len(ddConfig) = 2
    /\ ddConfig[1].managed_disk_id = DiskIdA
    /\ ddConfig[1].create_option = ""
    /\ ddConfig[2].managed_disk_id = ""
    /\ ddReturn[1].result[1][1].CreateOption = DiskCreateOptionTypesAttach
    /\ ddReturn[1].result[1][2].CreateOption = DiskCreateOptionTypesEmpty

\* C3: in expandVirtualMachineDataDisks, when the lookup of an entry fails
\* for any reason, "not found" included, the expand has returned an error
\* that names the disk whose lookup failed (the name and the resource group
\* of its managed_disk_id) and no disk list, whatever was processed before.
C3_LookupFailureIsAnError ==
    \A k \in DOMAIN ddLookups :
        ddLookups[k].get.err # Nil =>
            /\ ddPc = "done"
            /\ ddReturn[1].result = Nil
            /\ ddReturn[1].err # Nil
            /\ ddReturn[1].err[1].msg = ErrRetrieveManagedDisk
            /\ ddReturn[1].err[1].name = ddLookups[k].Name
            /\ ddReturn[1].err[1].resourceGroup = ddLookups[k].ResourceGroup
            /\ ddConfig[ddLookups[k].entry].managed_disk_id \in {DiskIdA, DiskIdB}
            /\ ddConfig[ddLookups[k].entry].managed_disk_id = DiskIdA =>
                    ddReturn[1].err[1].name = "disk-a"
            /\ ddConfig[ddLookups[k].entry].managed_disk_id = DiskIdB =>
                    ddReturn[1].err[1].name = "disk-b"

C3_Witness ==
    /\ ddPc = "done"
    /\ Len(ddLookups) = 2
    /\ ddLookups[1].get.err = Nil
    /\ ddLookups[2].get = GetNotFound
    /\ Len(ddResult) = 1
    /\ ddReturn[1].result = Nil
    /\ ddReturn[1].err # Nil
    /\ ddReturn[1].err[1].name = "disk-b"

\* C4: expandVirtualMachineIdentity, given an identity block, returns a
\* validation error and no identity when identity_ids is non-empty and the
\* type is neither UserAssigned nor "SystemAssigned, UserAssigned"; in
\* every other case it returns no error and an identity of the declared
\* type.
C4_IdentityIdsNeedUserAssigned ==
    (identityPc = "expanded" /\ Len(identityConfig) = 1) =>
        IF /\ identityConfig[1].identity_ids # {}
           /\ identityConfig[1].type # ResourceIdentityTypeUserAssigned
           /\ identityConfig[1].type # ResourceIdentityTypeSystemAssignedUserAssigned
        THEN identityErr = Ptr(ErrIdentityIds) /\ identity = Nil
        ELSE /\ identityErr = Nil
             /\ identity # Nil
             /\ identity[1].Type = identityConfig[1].type

C4_Witness ==
    /\ identityPc = "expanded"
    /\ Len(identityConfig) = 1
    /\ identityConfig[1].type = ResourceIdentityTypeSystemAssigned
    /\ identityConfig[1].identity_ids = {"uai-a", "uai-b"}
    /\ identityErr # Nil
    /\ identity = Nil

\* C5 as stated: flattenVirtualMachineOSDisk applied to what
\* expandVirtualMachineOSDisk built from a valid configuration c returns a
\* mapping whose caching, storage_account_type, disk_size_gb, name,
\* disk_encryption_set_id, write_accelerator_enabled and diff_disk_settings
\* equal those of c.
C5_FlattenInvertsExpand ==
    (osPc = "flattened" /\ Len(osConfig) = 1) =>
        /\ osFlat[1].err = Nil
        /\ Len(osFlat[1].value) = 1
        /\ osFlat[1].value[1].caching = osConfig[1].caching
        /\ osFlat[1].value[1].storage_account_type = osConfig[1].storage_account_type
        /\ osFlat[1].value[1].disk_size_gb = osConfig[1].disk_size_gb
        /\ osFlat[1].value[1].name = osConfig[1].name
        /\ osFlat[1].value[1].disk_encryption_set_id = osConfig[1].disk_encryption_set_id
        /\ osFlat[1].value[1].write_accelerator_enabled = osConfig[1].write_accelerator_enabled
        /\ osFlat[1].value[1].diff_disk_settings = osConfig[1].diff_disk_settings

\* C6 as stated: for a configuration with disk_size_gb = 0 the expanded
\* object's size is unset, and the mapping flattened from any OS disk
\* object whose size is null has disk_size_gb = 0.
C6_Original ==
    /\ (osPc \in {"expanded", "flattened"} /\ Len(osConfig) = 1
            /\ osConfig[1].disk_size_gb = 0) =>
                osDisk[1].DiskSizeGB = Nil
    /\ (osPc = "flattened" /\ osDisk # Nil /\ osDisk[1].DiskSizeGB = Nil
            /\ osFlat[1].err = Nil) =>
                osFlat[1].value[1].disk_size_gb = 0

\* C6 (amended): for a configuration with disk_size_gb = 0 the expanded
\* object's size is unset (null, not zero); the mapping flattened from an
\* OS disk object whose size is null has disk_size_gb = 0, unless the
\* managed disk lookup succeeded and the looked-up disk carries a size, and
\* then it has that size.
C6_NullSizeIsZeroUnlessLookedUp ==
    /\ (osPc \in {"expanded", "flattened"} /\ Len(osConfig) = 1
            /\ osConfig[1].disk_size_gb = 0) =>
                osDisk[1].DiskSizeGB = Nil
    /\ (osPc = "flattened" /\ osDisk # Nil /\ osDisk[1].DiskSizeGB = Nil
            /\ osFlat[1].err = Nil) =>
                osFlat[1].value[1].disk_size_gb =
                    IF /\ osGet # Nil
                       /\ osGet[1].err = Nil
                       /\ osGet[1].DiskProperties # Nil
                       /\ osGet[1].DiskProperties[1].DiskSizeGB # Nil
                    THEN osGet[1].DiskProperties[1].DiskSizeGB[1]
                    ELSE 0

C6_Witness ==
    /\ osPc = "flattened"
    /\ Len(osConfig) = 1
    /\ osConfig[1].disk_size_gb = 0
    /\ osDisk[1].DiskSizeGB = Nil
    /\ osFlat[1].err = Nil
    /\ osFlat[1].value[1].disk_size_gb = 0

\* C7 as stated: flattenVirtualMachineIdentity applied to any identity
\* object carrying N user-assigned identity references returns one mapping
\* whose identity_ids holds exactly those N identifiers, each once.
C7_Original ==
    (identityPc = "flattened" /\ identity # Nil) =>
        /\ Len(identityFlat) = 1
        /\ Len(identityFlat[1].identity_ids) = Cardinality(IdentityKeys(identity))
        /\ {identityFlat[1].identity_ids[i] : i \in DOMAIN identityFlat[1].identity_ids}
                = IdentityKeys(identity)

\* C7 (amended): flattenVirtualMachineIdentity applied to any identity
\* object whose type is not None and that carries N user-assigned identity
\* references returns one mapping whose identity_ids holds exactly those N
\* identifiers, each once, whatever the order of enumeration; for the type
\* None it returns no mapping.
C7_FlattenKeepsIdentityIds ==
    (identityPc = "flattened" /\ identity # Nil) =>
        IF identity[1].Type = ResourceIdentityTypeNone
        THEN Len(identityFlat) = 0
        ELSE /\ Len(identityFlat) = 1
             /\ Len(identityFlat[1].identity_ids) = Cardinality(IdentityKeys(identity))
             /\ {identityFlat[1].identity_ids[i] : i \in DOMAIN identityFlat[1].identity_ids}
                    = IdentityKeys(identity)

C7_Witness ==
    /\ identityPc = "flattened"
    /\ identity # Nil
    /\ IdentityKeys(identity) = {"uai-a", "uai-b", "uai-c"}
    /\ Len(identityFlat) = 1
    /\ identityFlat[1].identity_ids = <<"uai-c", "uai-a", "uai-b">>

\* C8: expandVirtualMachineNetworkInterfaceIDs returns one reference per
\* identifier of its input, in the same order; the reference at the first
\* index is primary and no other is.
C8_FirstIsPrimary ==
    nicPc = "expanded" =>
        /\ nics # Nil
        /\ Len(nics[1]) = Len(nicConfig)
        /\ \A i \in DOMAIN nicConfig :
            /\ nics[1][i].ID = Ptr(nicConfig[i])
            /\ nics[1][i].Primary = Ptr(i = 1)
        /\ Cardinality({i \in DOMAIN nics[1] : nics[1][i].Primary = Ptr(TRUE)})
                = IF Len(nicConfig) > 0 THEN 1 ELSE 0

C8_Witness ==
    /\ nicPc = "expanded"
    /\ nicConfig = <<"nic-b", "nic-a", "nic-b">>
    /\ nics[1][1].Primary = Ptr(TRUE)
    /\ nics[1][3].Primary = Ptr(FALSE)

\* C9: in flattenVirtualMachineOSDisk the lookup only fills what the
\* object itself omits.  After a lookup that succeeded,
\* storage_account_type and disk_size_gb are the object's own values when
\* it carries them (non-empty tier, non-null non-zero size) and the
\* looked-up disk's otherwise, and disk_encryption_set_id is the looked-up
\* disk's encryption set; after "not found", or with no managed disk
\* identifier, the three are the object's own tier, its own size and empty.
C9_LookupOnlyBackfills ==
    (osPc = "flattened" /\ osDisk # Nil /\ osFlat[1].err = Nil) =>
        LET d == osDisk[1]
            m == osFlat[1].value[1]
            ownTier == IF d.ManagedDisk # Nil THEN d.ManagedDisk[1].StorageAccountType ELSE ""
            ownSize == IF d.DiskSizeGB # Nil THEN d.DiskSizeGB[1] ELSE 0
        IN  IF osGet # Nil /\ osGet[1].err = Nil
            THEN LET disk == osGet[1]
                     diskTier == IF disk.Sku # Nil THEN disk.Sku[1].Name ELSE ""
                     diskSize == IF disk.DiskProperties[1].DiskSizeGB # Nil
                                 THEN disk.DiskProperties[1].DiskSizeGB[1] ELSE 0
                     diskSet == IF /\ disk.DiskProperties[1].Encryption # Nil
                                   /\ disk.DiskProperties[1].Encryption[1].DiskEncryptionSetID # Nil
                                THEN disk.DiskProperties[1].Encryption[1].DiskEncryptionSetID[1]
                                ELSE ""
                 IN  /\ m.storage_account_type = IF ownTier # "" THEN ownTier ELSE diskTier
                     /\ m.disk_size_gb = IF ownSize # 0 THEN ownSize ELSE diskSize
                     /\ m.disk_encryption_set_id = diskSet
            ELSE /\ m.storage_account_type = ownTier
                 /\ m.disk_size_gb = ownSize
                 /\ m.disk_encryption_set_id = ""

C9_Witness ==
    /\ osPc = "flattened"
    /\ osDisk # Nil
    /\ osDisk[1].DiskSizeGB = Ptr(30)
    /\ osDisk[1].ManagedDisk # Nil
    /\ osDisk[1].ManagedDisk[1].StorageAccountType = ""
    /\ osGet # Nil
    /\ osGet[1].err = Nil
    /\ osGet[1].Sku # Nil
    /\ osGet[1].DiskProperties[1].DiskSizeGB = Ptr(64)
    /\ osFlat[1].err = Nil
    /\ osFlat[1].value[1].disk_size_gb = 30
    /\ osFlat[1].value[1].storage_account_type = "Standard_LRS"
    /\ osFlat[1].value[1].disk_encryption_set_id = "des-of-disk"

\* C10: expandVirtualMachineDataDisks takes the entries in list order and
\* issues its lookups one after the other: at most one per entry, only for
\* an entry whose managed_disk_id is non-empty and parses, never ahead of
\* the entry the loop is at; a failed lookup is the last one issued, and
\* after a failure (of a parse or of a lookup) the loop has stopped at the
\* failing entry; when nothing failed the result holds one disk per entry
\* in the order of the configuration.
C10_SequentialLookups ==
    /\ \A j, k \in DOMAIN ddLookups : j < k => ddLookups[j].entry < ddLookups[k].entry
    /\ \A k \in DOMAIN ddLookups :
        /\ ddLookups[k].entry \in DOMAIN ddConfig
        /\ ddLookups[k].entry <= ddIndex
        /\ ddConfig[ddLookups[k].entry].managed_disk_id # ""
        /\ ParseManagedDiskID(ddConfig[ddLookups[k].entry].managed_disk_id).err = Nil
        /\ ddLookups[k].Name =
                ParseManagedDiskID(ddConfig[ddLookups[k].entry].managed_disk_id).Name
        /\ ddLookups[k].get.err # Nil => k = Len(ddLookups) /\ ddLookups[k].entry = ddIndex
    /\ Len(ddResult) = ddIndex - 1
    /\ (ddPc = "done" /\ ddReturn[1].err # Nil) =>
        /\ ddIndex \in DOMAIN ddConfig
        /\ ddReturn[1].result = Nil
    /\ (ddPc = "done" /\ ddReturn[1].err = Nil) =>
        /\ ddReturn[1].result # Nil
        /\ Len(ddReturn[1].result[1]) = Len(ddConfig)
        /\ \A i \in DOMAIN ddConfig :
            /\ ddReturn[1].result[1][i].Name = Ptr(ddConfig[i].name)
            /\ ddReturn[1].result[1][i].ManagedDisk[1].ID =
                    IF ddConfig[i].managed_disk_id = "" THEN Nil
                    ELSE Ptr(ddConfig[i].managed_disk_id)

C10_Witness ==
    /\ ddPc = "done"
    /\ Len(ddConfig) = 2
    /\ ddConfig[1].managed_disk_id = ""
    /\ ddConfig[1].name = "data2"
    /\ ddConfig[2].managed_disk_id = DiskIdB
    /\ ddConfig[2].name = "data1"
    /\ Len(ddLookups) = 1
    /\ ddLookups[1].entry = 2
    /\ ddReturn[1].err = Nil
    /\ Len(ddReturn[1].result[1]) = 2

====
